---- MODULE Spec2Model ----
(***************************************************************************)
(* A model of watermark.py: the shadowed text renderer                     *)
(* (paint_shadowed_text), the placement compositor                         *)
(* (add_watermark_to_image) and the batch driver (process_directory).      *)
(*                                                                         *)
(* An image is a record [id, size, ops]: the identity of its buffer, its   *)
(* <<width, height>>, and the log of the draw operations it has received,  *)
(* oldest first.  Float factors (tile_step, diag_step, margin_ratio) are   *)
(* counted in quarters, which floats represent exactly, so int(a * f) is   *)
(* the quotient of a * (4f) by 4 truncated towards zero.                   *)
(***************************************************************************)
EXTENDS Integers, Sequences, FiniteSets, TLC

MaxW == 3
MaxH == 3
MaxFiles == 2

VARIABLES
  pc,          \* position inside add_watermark_to_image
  args,        \* the arguments of the running call
  img,         \* the caller's image
  overlay,     \* the overlay of the running call
  tile_layer,  \* the working layer of diagonal-tile mode
  step,        \* <<step_x, step_y>> (tile) or <<step, step>> (diagonal-tile)
  xx, yy,      \* loop variables of the anchor loops
  out,         \* the returned image, NoImage until the call returns one
  err,         \* the exception raised, NoError while none is
  bpc,         \* position inside process_directory, "off" for a direct call
  conf,        \* the arguments of process_directory
  files,       \* the directory listing: a sequence of [readable, size]
  idx,         \* the index in files of the image being processed
  written,     \* the indices of the files whose output has been saved
  berr         \* the exception process_directory ended with

call == <<pc, args, img, overlay, tile_layer, step, xx, yy, out, err>>
batch == <<bpc, conf, files, idx, written, berr>>
vars == <<call, batch>>

NoImage == [id |-> "none", size |-> <<0, 0>>, ops |-> <<>>]
NoError == [type |-> "none", msg |-> ""]
NoArgs == [mode |-> "", text |-> <<0, 0>>, margin |-> 0, opacity |-> 0,
           stroke_width |-> 0, shadow_offset |-> <<0, 0>>, shadow_alpha |-> 0,
           shadow_blur |-> 0, tile_step |-> <<4, 4>>, diag_step |-> 6]

-----------------------------------------------------------------------------
(* Input domains *)

SupportedModes == {"bottom-right", "center", "tile", "diagonal-tile"}
Modes == SupportedModes \cup {"top-left"}
Sizes == (1..MaxW) \X (1..MaxH)
\* a text is known by the extent textbbox measures for it: <<tw, th>>
Texts == {<<0, 0>>, <<1, 1>>, <<2, 1>>, <<1, 2>>}
Margins == {-3, 0, 1}
TileFactors == {1, 4, 5}        \* 0.25, 1.0, 1.25
DiagFactors == {-6, 2, 6}       \* -1.5, 0.5, 1.5
ShadowOffsets == {<<0, 0>>, <<2, 2>>}
ShadowAlphas == {0, 180, 200}
ShadowBlurs == {0, 2}
StrokeWidths == {0, 2}

-----------------------------------------------------------------------------
(* Arithmetic of the source *)

\* a slip: round(n / d), halves upwards, in place of int()
TruncRound(n, d) == (2 * n + d) \div (2 * d)

\* int(n / d) for d > 0: Python's int() truncates towards zero
Trunc(n, d) == IF n >= 0 THEN n \div d ELSE -((-n) \div d)

\* int(a * f) for the float f = q / 4
ScaleInt(a, q) == Trunc(a * q, 4)

Max(a, b) == IF a >= b THEN a ELSE b

\* a slip: a closed upper bound
InRangeInclusive(cur, stop, st) == IF st > 0 THEN cur <= stop ELSE cur >= stop

\* whether range(start, stop, step) still yields cur (step # 0)
InRange(cur, stop, st) == IF st > 0 THEN cur < stop ELSE cur > stop

ZeroStepError == [type |-> "ValueError", msg |-> "range() arg 3 must not be zero"]

-----------------------------------------------------------------------------
(* Images *)

\* Image.new("RGBA", size, (0, 0, 0, 0))
NewImage(id, size) == [id |-> id, size |-> size, ops |-> <<>>]

\* the draw of one text instance (ImageDraw.text)
DrawOp(kind, x, y, text, alpha, blur, stroke) ==
  [kind |-> kind, x |-> x, y |-> y, text |-> text, alpha |-> alpha,
   blur |-> blur, stroke |-> stroke, rot |-> 0]

\* a slip: the offset is not looked at
ShadowPassAlphaOnly(shadow_offset, shadow_alpha) == shadow_alpha # 0

\* the guard of the shadow pass
ShadowPass(shadow_offset, shadow_alpha) ==
  shadow_alpha # 0 /\ shadow_offset # <<0, 0>>

\* paint_shadowed_text(base, pos, text, font, fill, ...): base after the call
PaintShadowedText(base, pos, a) ==
  LET shadow == DrawOp("shadow", pos[1] + a.shadow_offset[1],
                       pos[2] + a.shadow_offset[2], a.text, a.shadow_alpha,
                       IF a.shadow_blur > 0 THEN a.shadow_blur ELSE 0,
                       a.stroke_width)
      fill == DrawOp("fill", pos[1], pos[2], a.text, a.opacity, 0,
                     a.stroke_width)
      shadowed == IF ShadowPass(a.shadow_offset, a.shadow_alpha)
                    THEN Append(base.ops, shadow)
                    ELSE base.ops
  IN [base EXCEPT !.ops = Append(shadowed, fill)]

\* a slip: expand=True grows the canvas to hold the turned layer
RotatedSizeExpand(size) == <<size[1] + size[2], size[1] + size[2]>>

\* the size of layer.rotate(45, expand=False)
RotatedSize(size) == size

\* layer.rotate(45, expand=False)
Rotate45(layer) ==
  [id |-> "rotated", size |-> RotatedSize(layer.size),
   ops |-> [i \in 1..Len(layer.ops) |-> [layer.ops[i] EXCEPT !.rot = 45]]]

\* Image.alpha_composite(a, b): a new image, b over a
AlphaComposite(id, a, b) == [id |-> id, size |-> a.size, ops |-> a.ops \o b.ops]

MismatchError == [type |-> "ValueError", msg |-> "images do not match"]

-----------------------------------------------------------------------------
(* What a layer shows *)

\* the anchors of a layer: the positions of its fill draws, oldest first
RECURSIVE Anchors(_)
Anchors(ops) ==
  IF ops = <<>> THEN <<>>
  ELSE LET rest == Anchors(Tail(ops))
       IN IF Head(ops).kind = "fill"
            THEN <<(<<Head(ops).x, Head(ops).y>>)>> \o rest
            ELSE rest

Pixels(size) == (0..(size[1] - 1)) \X (0..(size[2] - 1))

\* a * sqrt(2) <= u, for integers a and u
LeSqrt2(a, u) ==
  IF u >= 0 THEN a <= 0 \/ 2 * a * a <= u * u
            ELSE a < 0 /\ 2 * a * a >= u * u

\* rotate(45, expand=False) turns the layer about its centre (w/2, h/2): the
\* output pixel p, sampled at its centre, shows the layer's point
\* (w/2 + u / (2 sqrt 2), h/2 + v / (2 sqrt 2))
RotU(p, size) == (2 * p[1] + 1 - size[1]) - (2 * p[2] + 1 - size[2])
RotV(p, size) == (2 * p[1] + 1 - size[1]) + (2 * p[2] + 1 - size[2])

\* whether that point lies inside the layer
SourceInLayer(p, size) ==
  /\ LeSqrt2(-size[1], RotU(p, size)) /\ ~LeSqrt2(size[1], RotU(p, size))
  /\ LeSqrt2(-size[2], RotV(p, size)) /\ ~LeSqrt2(size[2], RotV(p, size))

\* whether that point lies in the layer's pixel q (nearest-neighbour sampling)
SourceIs(p, q, size) ==
  /\ LeSqrt2(2 * q[1] - size[1], RotU(p, size))
  /\ ~LeSqrt2(2 * q[1] + 2 - size[1], RotU(p, size))
  /\ LeSqrt2(2 * q[2] - size[2], RotV(p, size))
  /\ ~LeSqrt2(2 * q[2] + 2 - size[2], RotV(p, size))

\* the pixels of a layer one draw touches: the text's box, clipped to the layer
OpInk(op, size) ==
  LET box == {q \in Pixels(size) : /\ op.x <= q[1] /\ q[1] < op.x + op.text[1]
                                    /\ op.y <= q[2] /\ q[2] < op.y + op.text[2]}
  IN IF op.rot = 0 THEN box
     ELSE {p \in Pixels(size) : \E q \in box : SourceIs(p, q, size)}

Ink(layer) == UNION {OpInk(layer.ops[i], layer.size) : i \in 1..Len(layer.ops)}

-----------------------------------------------------------------------------
(* add_watermark_to_image *)

W == img.size[1]
H == img.size[2]
TW == args.text[1]
TH == args.text[2]

Raise(e) ==
  /\ pc' = "error"
  /\ err' = e

\* entry of add_watermark_to_image(image, **a): the overlay is allocated and
\* the text measured
Enter(image, a) ==
  /\ img' = image
  /\ args' = a
  /\ overlay' = NewImage("overlay", image.size)
  /\ pc' = "dispatch"
  /\ UNCHANGED <<tile_layer, step, xx, yy, out, err>>

\* a direct caller passes an image and the keyword arguments; the step factors
\* keep their defaults in the modes that do not read them
Call ==
  /\ bpc = "off"
  /\ pc = "idle"
  /\ \E size \in Sizes, mode \in Modes, text \in Texts, margin \in Margins,
        so \in ShadowOffsets, sa \in ShadowAlphas, sb \in ShadowBlurs,
        sw \in StrokeWidths :
       \E ts \in IF mode = "tile" THEN TileFactors \X TileFactors ELSE {<<4, 4>>},
          ds \in IF mode = "diagonal-tile" THEN DiagFactors ELSE {6} :
         Enter(NewImage("img", size),
               [mode |-> mode, text |-> text, margin |-> margin,
                opacity |-> 128, stroke_width |-> sw, shadow_offset |-> so,
                shadow_alpha |-> sa, shadow_blur |-> sb,
                tile_step |-> ts, diag_step |-> ds])
  /\ UNCHANGED batch

\* a slip: the anchor clamped into the canvas
CornerAnchorClamped ==
  <<Max(0, W - TW - args.margin), Max(0, H - TH - args.margin)>>

CornerAnchor == <<W - TW - args.margin, H - TH - args.margin>>

PlaceCorner ==
  /\ pc = "dispatch"
  /\ args.mode = "bottom-right"
  /\ overlay' = PaintShadowedText(overlay, CornerAnchor, args)
  /\ pc' = "merge"
  /\ UNCHANGED <<args, img, tile_layer, step, xx, yy, out, err>>
  /\ UNCHANGED batch

CenterAnchor == <<(W - TW) \div 2, (H - TH) \div 2>>

PlaceCenter ==
  /\ pc = "dispatch"
  /\ args.mode = "center"
  /\ overlay' = PaintShadowedText(overlay, CenterAnchor, args)
  /\ pc' = "merge"
  /\ UNCHANGED <<args, img, tile_layer, step, xx, yy, out, err>>
  /\ UNCHANGED batch

TileStepX == ScaleInt(TW + args.margin, args.tile_step[1])
TileStepY == ScaleInt(TH + args.margin, args.tile_step[2])

TileBegin ==
  /\ pc = "dispatch"
  /\ args.mode = "tile"
  /\ step' = <<TileStepX, TileStepY>>
  /\ IF step'[2] = 0
       THEN Raise(ZeroStepError) /\ UNCHANGED yy
       ELSE pc' = "tile_y" /\ yy' = 0 /\ UNCHANGED err
  /\ UNCHANGED <<args, img, overlay, tile_layer, xx, out>>
  /\ UNCHANGED batch

TileRow ==
  /\ pc = "tile_y"
  /\ IF InRange(yy, H, step[2])
       THEN IF step[1] = 0
              THEN Raise(ZeroStepError) /\ UNCHANGED xx
              ELSE pc' = "tile_x" /\ xx' = 0 /\ UNCHANGED err
       ELSE pc' = "merge" /\ UNCHANGED <<xx, err>>
  /\ UNCHANGED <<args, img, overlay, tile_layer, step, yy, out>>
  /\ UNCHANGED batch

TileCol ==
  /\ pc = "tile_x"
  /\ IF InRange(xx, W, step[1])
       THEN /\ overlay' = PaintShadowedText(overlay, <<xx, yy>>, args)
            /\ xx' = xx + step[1]
            /\ UNCHANGED <<pc, yy>>
       ELSE /\ yy' = yy + step[2]
            /\ pc' = "tile_y"
            /\ UNCHANGED <<overlay, xx>>
  /\ UNCHANGED <<args, img, tile_layer, step, out, err>>
  /\ UNCHANGED batch

\* a slip: the step clamped to at least one pixel
DiagStepClamped == Max(1, ScaleInt(Max(TW, TH), args.diag_step))

DiagStep == ScaleInt(Max(TW, TH), args.diag_step)

DiagBegin ==
  /\ pc = "dispatch"
  /\ args.mode = "diagonal-tile"
  /\ tile_layer' = NewImage("tile_layer", img.size)
  /\ step' = <<DiagStep, DiagStep>>
  /\ IF step'[2] = 0
       THEN Raise(ZeroStepError) /\ UNCHANGED yy
       ELSE pc' = "diag_y" /\ yy' = -H /\ UNCHANGED err
  /\ UNCHANGED <<args, img, overlay, xx, out>>
  /\ UNCHANGED batch

DiagRow ==
  /\ pc = "diag_y"
  /\ IF InRange(yy, H * 2, step[2])
       THEN pc' = "diag_x" /\ xx' = -W
       ELSE pc' = "rotate" /\ UNCHANGED xx
  /\ UNCHANGED <<args, img, overlay, tile_layer, step, yy, out, err>>
  /\ UNCHANGED batch

DiagCol ==
  /\ pc = "diag_x"
  /\ IF InRange(xx, W * 2, step[1])
       THEN /\ tile_layer' = PaintShadowedText(tile_layer, <<xx, yy>>, args)
            /\ xx' = xx + step[1]
            /\ UNCHANGED <<pc, yy>>
       ELSE /\ yy' = yy + step[2]
            /\ pc' = "diag_y"
            /\ UNCHANGED <<tile_layer, xx>>
  /\ UNCHANGED <<args, img, overlay, step, out, err>>
  /\ UNCHANGED batch

DiagRotate ==
  /\ pc = "rotate"
  /\ LET rotated == Rotate45(tile_layer)
     IN IF rotated.size = overlay.size
          THEN /\ overlay' = AlphaComposite("overlay2", overlay, rotated)
               /\ pc' = "merge"
               /\ UNCHANGED err
          ELSE Raise(MismatchError) /\ UNCHANGED overlay
  /\ UNCHANGED <<args, img, tile_layer, step, xx, yy, out>>
  /\ UNCHANGED batch

UnknownModeError(mode) == [type |-> "ValueError", msg |-> "unknown mode: " \o mode]

\* a slip: no else branch, an unknown mode falls through to the merge
UnknownModeFallthrough ==
  /\ pc = "dispatch"
  /\ args.mode \notin SupportedModes
  /\ pc' = "merge"
  /\ UNCHANGED <<args, img, overlay, tile_layer, step, xx, yy, out, err>>
  /\ UNCHANGED batch

UnknownMode ==
  /\ pc = "dispatch"
  /\ args.mode \notin SupportedModes
  /\ Raise(UnknownModeError(args.mode))
  /\ UNCHANGED <<args, img, overlay, tile_layer, step, xx, yy, out>>
  /\ UNCHANGED batch

\* img.convert("RGBA"): a copy
ConvertRGBA(im) == [im EXCEPT !.id = "converted"]

Merge ==
  /\ pc = "merge"
  /\ out' = AlphaComposite("result", ConvertRGBA(img), overlay)
  /\ pc' = "done"
  /\ UNCHANGED <<args, img, overlay, tile_layer, step, xx, yy, err>>
  /\ UNCHANGED batch

\* the state of no call in progress
Cleared ==
  /\ pc' = "idle"
  /\ args' = NoArgs
  /\ img' = NoImage
  /\ overlay' = NoImage
  /\ tile_layer' = NoImage
  /\ step' = <<0, 0>>
  /\ xx' = 0
  /\ yy' = 0
  /\ out' = NoImage
  /\ err' = NoError

\* a direct call has returned or raised; the caller may call again
Return ==
  /\ bpc = "off"
  /\ pc \in {"done", "error"}
  /\ Cleared
  /\ UNCHANGED batch

NoCall ==
  /\ pc = "idle"
  /\ args = NoArgs
  /\ img = NoImage
  /\ overlay = NoImage
  /\ tile_layer = NoImage
  /\ step = <<0, 0>>
  /\ xx = 0
  /\ yy = 0
  /\ out = NoImage
  /\ err = NoError

NoConf == [mode |-> "", text |-> 0, font_size |-> 0, font_ratio |-> 0,
           fit |-> "", margin_ratio |-> 0, font_found |-> FALSE]

Init ==
  /\ NoCall
  /\ bpc = "off"
  /\ conf = NoConf
  /\ files = <<>>
  /\ idx = 0
  /\ written = {}
  /\ berr = NoError

-----------------------------------------------------------------------------
(* process_directory *)

\* the directory listings: image files that Image.open can or cannot decode
FileKinds == {[readable |-> r, size |-> sz] : r \in BOOLEAN, sz \in {<<2, 2>>, <<2, 3>>}}

RECURSIVE Listings(_)
Listings(n) ==
  IF n = 0 THEN {<<>>}
  ELSE LET shorter == Listings(n - 1)
       IN shorter \cup {Append(l, f) : l \in {k \in shorter : Len(k) = n - 1},
                                        f \in FileKinds}

\* text: the number of characters; font_size 0: None; float ratios in quarters
Confs ==
  [mode : Modes, text : {0, 1}, font_size : {0, 1}, font_ratio : {2},
   fit : {"long", "short"}, margin_ratio : {0, 2}, font_found : BOOLEAN]

Min(a, b) == IF a <= b THEN a ELSE b

\* the font size process_directory asks load_font for
FontSize(w, h) ==
  IF conf.font_size # 0
    THEN conf.font_size
    ELSE LET base == IF conf.fit = "long" THEN Max(w, h) ELSE Min(w, h)
         IN ScaleInt(base, conf.font_ratio)

\* the extent textbbox measures for n characters of a font of this size
Measure(n, size) == IF n = 0 THEN <<0, 0>> ELSE <<n * size, size>>

UnreadableError == [type |-> "UnidentifiedImageError", msg |-> "cannot identify image file"]
FontError == [type |-> "FileNotFoundError", msg |-> "font not found"]

\* the listing is taken; an empty one ends the run with a warning
BStart ==
  /\ bpc = "start"
  /\ IF files = <<>>
       THEN bpc' = "finished" /\ UNCHANGED idx
       ELSE bpc' = "open" /\ idx' = 1
  /\ UNCHANGED <<conf, files, written, berr>>
  /\ UNCHANGED call

\* Image.open and exif_transpose of files[idx]
BOpen ==
  /\ bpc = "open"
  /\ IF files[idx].readable
       THEN /\ img' = NewImage("img", files[idx].size)
            /\ bpc' = "font"
            /\ UNCHANGED berr
       ELSE /\ bpc' = "aborted"
            /\ berr' = UnreadableError
            /\ UNCHANGED img
  /\ UNCHANGED <<conf, files, idx, written>>
  /\ UNCHANGED <<pc, args, overlay, tile_layer, step, xx, yy, out, err>>

\* load_font, then the call of add_watermark_to_image
BCall ==
  /\ bpc = "font"
  /\ IF conf.font_found
       THEN /\ Enter(img,
                     [mode |-> conf.mode,
                      text |-> Measure(conf.text, FontSize(W, H)),
                      margin |-> ScaleInt(Max(W, H), conf.margin_ratio),
                      opacity |-> 128, stroke_width |-> 0,
                      shadow_offset |-> <<2, 2>>, shadow_alpha |-> 180,
                      shadow_blur |-> 0, tile_step |-> <<4, 4>>,
                      diag_step |-> 6])
            /\ bpc' = "in_call"
            /\ UNCHANGED berr
       ELSE /\ bpc' = "aborted"
            /\ berr' = FontError
            /\ UNCHANGED call
  /\ UNCHANGED <<conf, files, idx, written>>

\* add_watermark_to_image returned: the output is saved, the loop goes on
BSave ==
  /\ bpc = "in_call"
  /\ pc = "done"
  /\ written' = written \cup {idx}
  /\ Cleared
  /\ IF idx < Len(files)
       THEN idx' = idx + 1 /\ bpc' = "open"
       ELSE bpc' = "finished" /\ UNCHANGED idx
  /\ UNCHANGED <<conf, files, berr>>

\* add_watermark_to_image raised: nothing in the loop catches it
BRaise ==
  /\ bpc = "in_call"
  /\ pc = "error"
  /\ bpc' = "aborted"
  /\ berr' = err
  /\ UNCHANGED <<conf, files, idx, written>>
  /\ UNCHANGED call

BatchInit ==
  /\ NoCall
  /\ bpc = "start"
  /\ conf \in Confs
  /\ files \in Listings(MaxFiles)
  /\ idx = 0
  /\ written = {}
  /\ berr = NoError

BatchNext ==
  \/ BStart
  \/ BOpen
  \/ BCall
  \/ PlaceCorner
  \/ PlaceCenter
  \/ TileBegin
  \/ TileRow
  \/ TileCol
  \/ DiagBegin
  \/ DiagRow
  \/ DiagCol
  \/ DiagRotate
  \/ UnknownMode
  \/ Merge
  \/ BSave
  \/ BRaise

BatchSpec == BatchInit /\ [][BatchNext]_vars

Next ==
  \/ Call
  \/ PlaceCorner
  \/ PlaceCenter
  \/ TileBegin
  \/ TileRow
  \/ TileCol
  \/ DiagBegin
  \/ DiagRow
  \/ DiagCol
  \/ DiagRotate
  \/ UnknownMode
  \/ Merge
  \/ Return

Spec == Init /\ [][Next]_vars

-----------------------------------------------------------------------------
(* Properties *)

InCall == pc \notin {"idle", "dispatch"}
Ended == pc \in {"done", "error"}
NoAnchorDrawn == overlay.ops = <<>> /\ tile_layer.ops = <<>>

\* C1: a tile or diagonal-tile call whose computed step is zero or negative
\* ends in an error, with no anchor drawn and no output image.
C1_DegenerateStepRejected ==
  (Ended /\ args.mode \in {"tile", "diagonal-tile"}
         /\ (step[1] <= 0 \/ step[2] <= 0))
    => (pc = "error" /\ NoAnchorDrawn /\ out = NoImage)

\* C2: a call with a mode outside the four supported ones raises an error
\* whose message names the mode, draws no anchor and returns no image.
C2_UnknownModeFails ==
  (InCall /\ args.mode \notin SupportedModes)
    => /\ pc = "error"
       /\ err.type = "ValueError"
       /\ err.msg = "unknown mode: " \o args.mode
       /\ NoAnchorDrawn
       /\ out = NoImage

C2_Witness ==
  pc = "error" /\ args.mode = "top-left" /\ err.msg = "unknown mode: top-left"

\* C3 as stated: with tw = th = 0 no call in a supported mode fails.
C3_EmptyTextNeverFails ==
  (pc # "idle" /\ args.text = <<0, 0>> /\ args.mode \in SupportedModes)
    => pc # "error"

\* C3 as amended: with tw = th = 0 the overlay stays blank; a bottom-right or
\* center call does not fail, a tile call fails only on a zero step (and
\* always on a zero vertical step), and a diagonal-tile call, whose step is
\* then 0, always fails on it.
C3_EmptyTextBlankOverlay ==
  (pc # "idle" /\ args.text = <<0, 0>> /\ args.mode \in SupportedModes)
    => /\ Ink(overlay) = {}
       /\ pc = "done" => (out # NoImage /\ Ink(out) = {})
       /\ pc = "error" =>
            /\ args.mode \in {"tile", "diagonal-tile"}
            /\ step[1] = 0 \/ step[2] = 0
            /\ err = ZeroStepError
       /\ (args.mode = "diagonal-tile" /\ InCall) => pc = "error"
       /\ (args.mode = "tile" /\ InCall /\ step[2] = 0) => pc = "error"
       /\ (args.mode = "tile" /\ InCall /\ step[1] # 0 /\ step[2] # 0)
            => pc # "error"

C3_Witness ==
  /\ pc = "done"
  /\ args.text = <<0, 0>>
  /\ args.mode = "tile"
  /\ Len(overlay.ops) >= 2
  /\ Ink(out) = {}

\* the products (tw + margin) * tileStepX and (th + margin) * tileStepY, in quarters
TileProductX == (TW + args.margin) * args.tile_step[1]
TileProductY == (TH + args.margin) * args.tile_step[2]
Abs(n) == IF n >= 0 THEN n ELSE -n
\* s is an integer nearest to prod / 4 (whichever way halves go)
IsRounded(s, prod) == Abs(4 * s - prod) <= 2
\* s is prod / 4 with its fractional part dropped
IsTruncated(s, prod) ==
  IF prod >= 0 THEN 4 * s <= prod /\ prod < 4 * s + 4
               ELSE 4 * s >= prod /\ prod > 4 * s - 4

\* C4 as stated: in tile mode the steps are the products rounded.
C4_TileStepRounds ==
  (InCall /\ args.mode = "tile")
    => IsRounded(step[1], TileProductX) /\ IsRounded(step[2], TileProductY)

\* C4 as amended: in tile mode the steps are the products truncated towards
\* zero (int()), so a fractional part of .5 or more is dropped, not rounded up.
C4_TileStepTruncates ==
  (InCall /\ args.mode = "tile")
    => IsTruncated(step[1], TileProductX) /\ IsTruncated(step[2], TileProductY)

C4_Witness ==
  /\ pc = "tile_x"
  /\ args.mode = "tile"
  /\ TileProductX = 15
  /\ step[1] = 3
  /\ TileProductY > 0
  /\ TileProductY % 4 = 2

\* ceil(a / b) for b > 0
Ceil(a, b) == (a + b - 1) \div b
\* the tile grid of a W x H canvas, row by row
TileGrid(sx, sy) ==
  LET nx == Ceil(W, sx)
      ny == Ceil(H, sy)
  IN [k \in 1..(nx * ny) |-> <<((k - 1) % nx) * sx, ((k - 1) \div nx) * sy>>]
IsPrefix(a, b) == Len(a) <= Len(b) /\ a = SubSeq(b, 1, Len(a))
SeqRange(q) == {q[i] : i \in 1..Len(q)}

\* C5: in tile mode with positive steps the anchors drawn so far are always
\* the first ones of the grid taken row by row, and once the loop has ended
\* they are the ceil(H/sy) * ceil(W/sx) points (i*sx, j*sy) inside the canvas,
\* the first of them (0,0).
C5_TileCoverage ==
  (InCall /\ args.mode = "tile" /\ step[1] > 0 /\ step[2] > 0)
    => LET drawn == Anchors(overlay.ops)
           grid == TileGrid(step[1], step[2])
       IN /\ pc # "error"
          /\ IsPrefix(drawn, grid)
          /\ pc \in {"merge", "done"} =>
               /\ drawn = grid
               /\ Len(drawn) = Ceil(H, step[2]) * Ceil(W, step[1])
               /\ drawn[1] = <<0, 0>>
               /\ SeqRange(drawn) =
                    {p \in Pixels(img.size) : p[1] % step[1] = 0 /\ p[2] % step[2] = 0}

C5_Witness ==
  /\ pc = "done"
  /\ args.mode = "tile"
  /\ step = <<2, 2>>
  /\ img.size = <<3, 3>>
  /\ Anchors(overlay.ops) = << <<0, 0>>, <<2, 0>>, <<0, 2>>, <<2, 2>> >>

\* C6: a bottom-right call never fails and draws exactly one anchor, at
\* (W - tw - margin, H - th - margin), negative coordinates included.
C6_CornerAnchor ==
  (InCall /\ args.mode = "bottom-right")
    => /\ pc \in {"merge", "done"}
       /\ Anchors(overlay.ops) =
            << <<img.size[1] - args.text[1] - args.margin,
                 img.size[2] - args.text[2] - args.margin>> >>
       /\ pc = "done" => Anchors(out.ops) = Anchors(overlay.ops)

C6_Witness ==
  /\ pc = "done"
  /\ args.mode = "bottom-right"
  /\ img.size = <<1, 1>>
  /\ args.text = <<2, 1>>
  /\ args.margin = 1
  /\ Anchors(out.ops) = << <<-2, -1>> >>

\* C7: in diagonal-tile mode every pixel of the canvas, turned back by the 45
\* degree rotation, falls inside the working layer that kept the glyphs.
C7_DiagonalCoversCanvas ==
  (args.mode = "diagonal-tile" /\ pc \in {"merge", "done"}
     /\ step[1] > 0 /\ tile_layer.ops # <<>>)
    => \A p \in Pixels(img.size) : SourceInLayer(p, tile_layer.size)

\* C8: every fill draw of a layer comes right after its shadow draw (at the
\* anchor plus the offset, with the shadow's alpha and blur) exactly when the
\* shadow alpha is positive and the offset is not (0,0); with offset (0,0)
\* the layer holds fill draws only, whatever the shadow alpha.
C8_ShadowPassGate ==
  \A layer \in {overlay, tile_layer} :
    \A i \in 1..Len(layer.ops) :
      LET op == layer.ops[i]
          shadowed == /\ i > 1
                      /\ layer.ops[i - 1].kind = "shadow"
                      /\ layer.ops[i - 1].x = op.x + args.shadow_offset[1]
                      /\ layer.ops[i - 1].y = op.y + args.shadow_offset[2]
                      /\ layer.ops[i - 1].alpha = args.shadow_alpha
                      /\ layer.ops[i - 1].blur = args.shadow_blur
                      /\ layer.ops[i - 1].stroke = args.stroke_width
      IN /\ op.kind = "fill" =>
              /\ shadowed <=>
                   (args.shadow_alpha > 0 /\ args.shadow_offset # <<0, 0>>)
              /\ op.alpha = args.opacity
              /\ op.blur = 0
         /\ op.kind = "shadow" =>
              /\ i < Len(layer.ops)
              /\ layer.ops[i + 1].kind = "fill"
         /\ args.shadow_offset = <<0, 0>> => op.kind = "fill"

C8_Witness ==
  /\ pc = "done"
  /\ args.shadow_offset = <<0, 0>>
  /\ args.shadow_alpha = 200
  /\ Len(overlay.ops) >= 2
  /\ \A i \in 1..Len(overlay.ops) : overlay.ops[i].kind = "fill"

\* C9: during a call the input image is untouched and the overlay and the
\* working layer have its size, the rotation does not change the working
\* layer's size, and a returned image is a new buffer of the input's size.
C9_SizePreserved ==
  (pc # "idle")
    => /\ img.id = "img" /\ img.ops = <<>>
       /\ overlay.size = img.size
       /\ tile_layer # NoImage => tile_layer.size = img.size
       /\ err # MismatchError
       /\ pc = "done" =>
            /\ out # NoImage
            /\ out.size = img.size
            /\ out.id \notin {img.id, overlay.id, tile_layer.id}
       /\ pc # "done" => out = NoImage

C9_Witness ==
  /\ pc = "done"
  /\ args.mode = "diagonal-tile"
  /\ Len(tile_layer.ops) >= 2
  /\ overlay.id = "overlay2"
  /\ out.size = img.size
  /\ img.size = <<2, 3>>

\* C10: when the batch has ended, every readable image other than the one
\* whose processing failed has its output written (stated for the runs in
\* which the font loads and the mode is one whose calls cannot fail).
C10_BatchIsolation ==
  (bpc \in {"finished", "aborted"} /\ conf.font_found
     /\ conf.mode \in {"bottom-right", "center"})
    => \A i \in 1..Len(files) : files[i].readable => i \in written

====
